---- MODULE Spec2Model ----
(***************************************************************************)
(* Crypto-Analyst-Agent-Dashboard: the market fetcher with its file cache  *)
(* (fetch_and_analyze.py), the news fetcher and the sentiment classifier   *)
(* (sentiment_rss.py) and the page load of the dashboard with its two     *)
(* tabs (dashboard.py).                                                    *)
(*                                                                         *)
(* Time is in whole seconds.  Upstream numbers are binary floats n/256,    *)
(* which are exact, so "{v:.2f}" is the correctly rounded (half-to-even)   *)
(* number of hundredths.  requests >= 2.27 is assumed, where the error     *)
(* raised by response.json() is a RequestException.                        *)
(***************************************************************************)
EXTENDS Integers, Sequences, FiniteSets, TLC

VARIABLES
    \* ---- fetch_and_analyze.py ----
    now,          \* time.time()
    cacheFile,    \* crypto_cache.json on disk
    pc,           \* position of the fetch_crypto_data invocation
    attempt,      \* loop variable of "for attempt in range(3)"
    cached,       \* local variable "cached"
    response,     \* the last HTTP response or request error
    wait,         \* seconds slept by the last loop iteration
    requests,     \* HTTP requests issued by the invocation
    data,         \* response.json()
    ret,          \* the table returned by the invocation
    outcome,      \* how the invocation ended
    t0,           \* time at which the invocation started
    cache0,       \* the cache file as the invocation found it
    \* ---- generate_insights ----
    df,           \* argument of generate_insights
    narrative,    \* its return value
    \* ---- sentiment_rss.py / dashboard.py ----
    crypto_news,  \* table crypto_news, in id order (id = position)
    news_df,      \* session of main(): the frame fetch_crypto_news returned
    session,      \* position of main(): "idle" or "fetched"
    returned,     \* last return value of fetch_crypto_news (any caller)
    peer,         \* a second, concurrent run of main(): its position and frame
    texts,        \* argument of the last analyze_sentiment_batch call
    sentiments,   \* its return value
    model,        \* what the hosted model did in that call
    snapshots,    \* batches appended to crypto_snapshots
    crypto_sentiments, \* rows of crypto_sentiments
    page,         \* how the last page load of tab1 ended
    history,      \* rows of table crypto_snapshots
    tab2,         \* how the historical tab of the last page load ended
    key           \* OPENAI_API_KEY is set in the environment

fetchVars == <<now, cacheFile, pc, attempt, cached, response, wait, requests,
               data, ret, outcome, t0, cache0>>
insightVars == <<df, narrative>>
newsVars == <<crypto_news, news_df, session, returned, peer>>
batchVars == <<texts, sentiments, model>>
dashVars == <<snapshots, crypto_sentiments, page, history, tab2, key>>
vars == <<fetchVars, insightVars, newsVars, batchVars, dashVars>>

----------------------------------------------------------------------------
(* Program constants *)

CACHE_TTL == 300
MaxAttempts == 3
NEWS_HEAD == 20
SELECT_LIMIT == 20
BATCH_SIZE == 5
DASH_HEAD == 10
RateLimitWait == 30
ErrorWait == 10

Windows == {"1h", "24h", "7d", "14d", "30d"}

COINS == << <<"bitcoin", "BTC">>, <<"ethereum", "ETH">>, <<"tether", "USDT">>,
            <<"binancecoin", "BNB">>, <<"ripple", "XRP">>, <<"solana", "SOL">>,
            <<"usd-coin", "USDC">>, <<"dogecoin", "DOGE">>,
            <<"staked-ether", "STETH">>, <<"tron", "TRX">> >>

----------------------------------------------------------------------------
(* Bounds *)

MaxTime == 301       \* the clock is not advanced by Tick beyond this
MaxCoins == 2        \* assets in one upstream response
MaxRows == 3         \* rows of a table given to generate_insights
MaxTexts == 3        \* headlines given to analyze_sentiment_batch on its own
MaxLink == 22        \* distinct article links the feeds ever deliver
MaxPageLoads == 1    \* page loads that append to the history tables

----------------------------------------------------------------------------
(* JSON values of the upstream price API *)

Missing == [t |-> "missing", v |-> 0, s |-> ""]
Null == [t |-> "null", v |-> 0, s |-> ""]
Num(n) == [t |-> "num", v |-> n, s |-> ""]
Str(x) == [t |-> "str", v |-> 0, s |-> x]

\* dict.get(key, default): the default only replaces a MISSING key
Get(field, default) == IF field.t = "missing" THEN default ELSE field

----------------------------------------------------------------------------
(* Formatted strings *)

Abs(n) == IF n < 0 THEN -n ELSE n

\* a / b with the fraction cut off
Truncate(a, b) == a \div b

\* a / b rounded to the nearest integer, ties to even (a >= 0, b > 0)
RoundHalfEven(a, b) ==
    LET q == a \div b
        r == a % b
    IN  IF 2 * r < b THEN q
        ELSE IF 2 * r > b THEN q + 1
        ELSE IF q % 2 = 0 THEN q ELSE q + 1

\* "{v:.2f}" of the float n/256: sign and hundredths ("-0.00" keeps its sign)
Fixed2(n) == [neg |-> n < 0, cents |-> RoundHalfEven(100 * Abs(n), 256)]

NA == [na |-> TRUE, neg |-> FALSE, cents |-> 0]
PctString(n) == [na |-> FALSE, neg |-> Fixed2(n).neg, cents |-> Fixed2(n).cents]

safe_pct(value) ==
    IF value.t = "null" \/ value.t = "missing" THEN NA   \* value is None
    ELSE IF value.t = "num" THEN PctString(value.v)
    ELSE NA                                             \* format raised

----------------------------------------------------------------------------
(* Upstream responses: the inputs of fetch_crypto_data *)

Pct(v) == [w \in Windows |-> v]

Coin(id, name, symbol, price, pct) ==
    [id |-> id, name |-> name, symbol |-> symbol, current_price |-> price,
     price_change_percentage |-> pct]

Bitcoin == Coin("bitcoin", Str("Bitcoin"), Str("btc"), Num(256 * 100), Pct(Num(1280)))
Pepe == Coin("pepe", Str("Pepe"), Missing, Missing, Pct(Num(-768)))
NullPrice == Coin("tether", Str("Tether"), Str("usdt"), Null, Pct(Num(0)))
NullSymbol == Coin("solana", Str("Solana"), Null, Num(256), Pct(Num(32)))

RECURSIVE SeqsUpTo(_, _)
SeqsUpTo(S, n) ==
    IF n = 0 THEN {<<>>}
    ELSE LET shorter == SeqsUpTo(S, n - 1)
         IN  shorter \cup {Append(q, x) : q \in shorter, x \in S}

\* a JSON array of asset objects
Array(items) == [list |-> TRUE, items |-> items]
\* a JSON object instead of an array, such as {"status": {"error_code": ...}}
ErrorObject == [list |-> FALSE, items |-> <<>>]
NoBody == Array(<<>>)

FetchCoins == {Bitcoin, Pepe, NullPrice, NullSymbol}
FetchBodies == {Array(q) : q \in SeqsUpTo(FetchCoins, MaxCoins)} \cup {ErrorObject}

Failures == {"Timeout", "ConnectionError", "HTTP429", "HTTPError", "BadJSON"}
NoResponse == [kind |-> "none", body |-> NoBody]
Failure(k) == [kind |-> k, body |-> NoBody]
OK(body) == [kind |-> "OK", body |-> body]
Responses(bodies) == {Failure(k) : k \in Failures} \cup {OK(b) : b \in bodies}

----------------------------------------------------------------------------
(* The cache file *)

Absent == [state |-> "absent", timestamp |-> 0, data |-> <<>>]
\* what json.dump leaves behind when it raises half-way: no JSON document
Partial == [state |-> "partial", timestamp |-> 0, data |-> <<>>]
Snapshot(ts, rows) == [state |-> "json", timestamp |-> ts, data |-> rows]

None == [some |-> FALSE, rows |-> <<>>]
DataFrame(rows) == [some |-> TRUE, rows |-> rows]

\* a cache check that forgets the expiry
load_cache_forever(file, time) ==
    IF file.state = "json" THEN DataFrame(file.data) ELSE None

load_cache(file, time) ==
    IF file.state = "absent" THEN None
    ELSE IF file.state = "partial" THEN None          \* json.load raised
    ELSE IF time - file.timestamp < CACHE_TTL THEN DataFrame(file.data)
    ELSE None

\* json.dump has no encoding for a pandas Timestamp
Serializable(row) == row.timestamp.type # "Timestamp"

save_cache(rows, time) ==
    IF \A i \in 1..Len(rows) : Serializable(rows[i])
    THEN Snapshot(time, rows)
    ELSE Partial       \* the file was truncated by open(..., "w"); the error is swallowed

----------------------------------------------------------------------------
(* Parsing one asset object: fetch_crypto_data, "Parse results" *)

CoinIds == {COINS[i][1] : i \in 1..Len(COINS)}
coin_symbols(cid) == (CHOOSE i \in 1..Len(COINS) : COINS[i][1] = cid)

\* evaluating the row expression raises
RowRaises(coin) ==
    \/ Get(coin.symbol, Str("N/A")).t # "str"              \* .upper() of None
    \/ Get(coin.current_price, Num(0)).t # "num"           \* format of None or str

NameOf(field) ==
    IF field.t = "str" THEN field.s ELSE IF field.t = "missing" THEN "N/A" ELSE "None"

Upper(s) ==
    IF s = "btc" THEN "BTC" ELSE IF s = "usdt" THEN "USDT" ELSE s

Row(coin, time) ==
    [Name |-> NameOf(coin.name),
     Symbol |-> IF coin.id \in CoinIds THEN COINS[coin_symbols(coin.id)][2]
                ELSE Upper(Get(coin.symbol, Str("N/A")).s),
     Price |-> Fixed2(Get(coin.current_price, Num(0)).v),
     Change |-> [w \in Windows |-> safe_pct(coin.price_change_percentage[w])],
     timestamp |-> [type |-> "Timestamp", t |-> time]]

Raises(body) ==
    \/ ~body.list                     \* iterating a dict yields its keys: str has no .get
    \/ \E i \in 1..Len(body.items) : RowRaises(body.items[i])

Results(body, time) == [i \in 1..Len(body.items) |-> Row(body.items[i], time)]

----------------------------------------------------------------------------
(* fetch_crypto_data, one action per step of the invocation *)

\* rows of a cache file that was on disk before the process started
StoredRow(name, n) ==
    [Name |-> name, Symbol |-> "BTC", Price |-> Fixed2(256 * 100),
     Change |-> [w \in Windows |-> PctString(n)],
     timestamp |-> [type |-> "number", t |-> 0]]

InitialCacheFiles == {Absent, Snapshot(0, <<StoredRow("Bitcoin", 640)>>)}

\* "return cached if cached is not None else pd.DataFrame()"
CachedOrEmpty(c) == IF c.some THEN c.rows ELSE <<>>

\* a backoff that does not grow with the attempt
FlatBackoff(n) == RateLimitWait

\* line 91: wait = 30 * (attempt + 1)
Backoff(n) == RateLimitWait * (n + 1)

\* lines 69-85: the cache check that opens the invocation
FetchStart ==
    /\ pc \in {"idle", "done"}
    /\ now <= MaxTime
    /\ t0' = now
    /\ cache0' = cacheFile
    /\ cached' = load_cache(cacheFile, now)
    /\ requests' = 0
    /\ attempt' = 0
    /\ response' = NoResponse
    /\ wait' = 0
    /\ data' = NoBody
    /\ IF cached'.some
       THEN pc' = "done" /\ outcome' = "cached" /\ ret' = cached'.rows
       ELSE pc' = "request" /\ outcome' = "running" /\ ret' = <<>>
    /\ UNCHANGED <<now, cacheFile>>

\* lines 87-107: one iteration of the retry loop, its sleep included
FetchAttempt(responses) ==
    /\ pc = "request"
    /\ \E r \in responses :
        /\ response' = r
        /\ requests' = requests + 1
        /\ IF r.kind = "HTTP429"
           THEN /\ wait' = Backoff(attempt)
                /\ attempt' = attempt + 1
                /\ data' = data
                /\ IF attempt + 1 < MaxAttempts
                   THEN pc' = "request" /\ UNCHANGED <<outcome, ret>>
                   ELSE /\ pc' = "done"           \* the for loop's else clause
                        /\ outcome' = "exhausted"
                        /\ ret' = CachedOrEmpty(cached)
           ELSE IF r.kind \in Failures
           THEN /\ data' = data
                /\ IF attempt < MaxAttempts - 1
                   THEN /\ wait' = ErrorWait
                        /\ attempt' = attempt + 1
                        /\ pc' = "request"
                        /\ UNCHANGED <<outcome, ret>>
                   ELSE /\ wait' = 0
                        /\ attempt' = attempt
                        /\ pc' = "done"
                        /\ outcome' = "exhausted"
                        /\ ret' = CachedOrEmpty(cached)
           ELSE /\ wait' = 0
                /\ attempt' = attempt
                /\ data' = r.body
                /\ pc' = "parse"                  \* break
                /\ UNCHANGED <<outcome, ret>>
    /\ now' = now + wait'
    /\ UNCHANGED <<cacheFile, cached, t0, cache0>>

\* lines 109-129: parse, stamp, save the cache, return
FetchParse ==
    /\ pc = "parse"
    /\ pc' = "done"
    /\ IF Raises(data)
       THEN outcome' = "raised" /\ ret' = <<>> /\ UNCHANGED cacheFile
       ELSE /\ outcome' = "live"
            /\ ret' = Results(data, now)
            /\ cacheFile' = save_cache(ret', now)
    /\ UNCHANGED <<now, attempt, cached, response, wait, requests, data, t0, cache0>>

\* The wall clock moves on between two invocations.  Only the age of the
\* cache file matters to the program, so the clock is moved to the instants
\* next to the file's expiry.
ExpiryOffsets == {CACHE_TTL - 1, CACHE_TTL, CACHE_TTL + 1}

Tick ==
    /\ pc \in {"idle", "done"}
    /\ cacheFile.state = "json"
    /\ \E d \in ExpiryOffsets :
        /\ cacheFile.timestamp + d > now
        /\ cacheFile.timestamp + d <= MaxTime
        /\ now' = cacheFile.timestamp + d
    /\ UNCHANGED <<cacheFile, pc, attempt, cached, response, wait, requests, data,
                   ret, outcome, t0, cache0>>

----------------------------------------------------------------------------
(* Initial values of the parts a specification leaves alone *)

InitFetch ==
    /\ now = 0
    /\ cacheFile = Absent
    /\ pc = "idle"
    /\ attempt = 0
    /\ cached = None
    /\ response = NoResponse
    /\ wait = 0
    /\ requests = 0
    /\ data = NoBody
    /\ ret = <<>>
    /\ outcome = "none"
    /\ t0 = 0
    /\ cache0 = Absent

InitInsights == df = <<>> /\ narrative = <<>>

\* no fetch_crypto_news call has returned yet
NoReturn ==
    [by |-> "none", frame |-> <<>>, delivered |-> 0, failing |-> 0,
     raised |-> FALSE, others |-> {}]

InitNews ==
    /\ crypto_news = <<>>
    /\ news_df = <<>>
    /\ session = "idle"
    /\ returned = NoReturn
    /\ peer = [at |-> "idle", frame |-> <<>>]

InitBatch == texts = <<>> /\ sentiments = <<>> /\ model = "none"

\* the parts of the dashboard's state that do not depend on the environment
NoPage ==
    /\ snapshots = 0 /\ crypto_sentiments = 0 /\ page = "none"
    /\ history = <<>> /\ tab2 = "none"

InitDash == NoPage /\ key = TRUE

----------------------------------------------------------------------------
(* The market fetcher on its own, the cache file being an input *)

FetchInit ==
    /\ now = 0
    /\ cacheFile \in InitialCacheFiles
    /\ pc = "idle"
    /\ attempt = 0
    /\ cached = None
    /\ response = NoResponse
    /\ wait = 0
    /\ requests = 0
    /\ data = NoBody
    /\ ret = <<>>
    /\ outcome = "none"
    /\ t0 = 0
    /\ cache0 = Absent
    /\ InitInsights /\ InitNews /\ InitBatch /\ InitDash

FetchRequest == FetchAttempt(Responses(FetchBodies))

FetchNext ==
    \/ FetchStart /\ UNCHANGED <<insightVars, newsVars, batchVars, dashVars>>
    \/ FetchRequest /\ UNCHANGED <<insightVars, newsVars, batchVars, dashVars>>
    \/ FetchParse /\ UNCHANGED <<insightVars, newsVars, batchVars, dashVars>>
    \/ Tick /\ UNCHANGED <<insightVars, newsVars, batchVars, dashVars>>

SpecFetch == FetchInit /\ [][FetchNext]_vars

SpecFetchFair ==
    /\ SpecFetch
    /\ WF_vars(FetchRequest /\ UNCHANGED <<insightVars, newsVars, batchVars, dashVars>>)
    /\ WF_vars(FetchParse /\ UNCHANGED <<insightVars, newsVars, batchVars, dashVars>>)

----------------------------------------------------------------------------
(* Claims about the market fetcher *)

Finished == pc = "done"
OtherFailures == Failures \ {"HTTP429"}

\* C2: with a cache file stamped T, an invocation that starts before T + 300
\* returns the file's rows and issues no HTTP request; one that starts after
\* T + 300 issues at least one HTTP request.
C2_CacheWindow ==
    (outcome # "none" /\ cache0.state = "json") =>
        /\ t0 < cache0.timestamp + CACHE_TTL =>
              (Finished /\ outcome = "cached" /\ ret = cache0.data /\ requests = 0)
        /\ (t0 > cache0.timestamp + CACHE_TTL /\ Finished) => requests >= 1

C2_Witness ==
    /\ Finished /\ outcome = "cached" /\ requests = 0
    /\ cache0.state = "json" /\ t0 = cache0.timestamp + CACHE_TTL - 1
    /\ ret = cache0.data /\ Len(ret) > 0

\* the expired side of C2 happens too
C2_WitnessExpired ==
    /\ Finished /\ cache0.state = "json" /\ t0 = cache0.timestamp + CACHE_TTL + 1
    /\ requests >= 1

\* C3: an invocation that exhausts its attempts returns the rows of the cache
\* file if there is one, however old, and an empty table only if there is none.
C3_StaleFallback ==
    (Finished /\ outcome = "exhausted") =>
        ret = IF cacheFile.state = "json" THEN cacheFile.data ELSE <<>>

\* C4: after a successful live response the cache file is a complete snapshot
\* of exactly the rows returned.
C4_SnapshotOfReturned ==
    (Finished /\ outcome = "live") =>
        (cacheFile.state = "json" /\ cacheFile.data = ret)

\* C5 as claimed: at most 3 requests; a 429 on the n-th request is followed by
\* a sleep of 30 * n seconds; any other failure by a sleep of 10 seconds and a retry.
C5_SleepsAndRetries ==
    [][pc = "request" =>
        /\ requests' = requests + 1 /\ requests' <= MaxAttempts
        /\ response'.kind = "HTTP429" => now' = now + RateLimitWait * requests'
        /\ response'.kind \in OtherFailures =>
              (now' = now + ErrorWait /\ pc' = "request")]_vars

\* C5 amended: as claimed for a 429 and for another failure of the first or
\* second request; another failure of the third request ends the invocation
\* at once, without a sleep.  Every started invocation finishes.
C5_Amended ==
    /\ [][pc = "request" =>
            /\ requests' = requests + 1 /\ requests' <= MaxAttempts
            /\ response'.kind = "HTTP429" =>
                  /\ now' = now + RateLimitWait * requests'
                  /\ pc' = IF requests' < MaxAttempts THEN "request" ELSE "done"
            /\ response'.kind \in OtherFailures =>
                  IF requests' < MaxAttempts
                  THEN now' = now + ErrorWait /\ pc' = "request"
                  ELSE now' = now /\ pc' = "done" /\ outcome' = "exhausted"]_vars
    /\ (pc = "request") ~> Finished

C5_Witness ==
    /\ Finished /\ outcome = "exhausted" /\ requests = MaxAttempts
    /\ response.kind = "Timeout" /\ wait = 0 /\ now = t0 + 2 * ErrorWait

\* C6: the invocation never raises to its caller.
C6_NeverRaises == outcome # "raised"

----------------------------------------------------------------------------
(* The formatted quote table: live fetches of responses whose                *)
(* percentage-change fields are absent, null, strings or numbers             *)

\* 0.125 and 0.375 are ties of the rounding, -1/256 prints as "-0.00"
FieldValues == {Missing, Null, Str("n/a"), Num(32), Num(96), Num(-1), Num(-335)}
QuoteWindows == {"24h", "7d"}

\* Ethereum with one percentage-change field replaced
Ethereum(w, v) ==
    Coin("ethereum", Str("Ethereum"), Str("eth"), Num(256 * 2000),
         [x \in Windows |-> IF x = w THEN v ELSE Num(640)])

QuoteCoins ==
    {Ethereum(w, v) : w \in QuoteWindows, v \in FieldValues} \cup {Bitcoin, Pepe}
QuoteBodies == {Array(q) : q \in SeqsUpTo(QuoteCoins, MaxCoins)}

QuoteRequest == FetchAttempt({OK(b) : b \in QuoteBodies} \cup {Failure("HTTP429")})

QuoteInit == InitFetch /\ InitInsights /\ InitNews /\ InitBatch /\ InitDash

QuoteNext ==
    \/ FetchStart /\ UNCHANGED <<insightVars, newsVars, batchVars, dashVars>>
    \/ QuoteRequest /\ UNCHANGED <<insightVars, newsVars, batchVars, dashVars>>
    \/ FetchParse /\ UNCHANGED <<insightVars, newsVars, batchVars, dashVars>>

SpecQuotes == QuoteInit /\ [][QuoteNext]_vars

\* s is v/256 to two decimals: the sign of v and the nearest number of
\* hundredths, the even one of two equally near
TwoDecimals(s, v) ==
    /\ ~s.na
    /\ s.neg = (v < 0)
    /\ 100 * Abs(v) - 256 * s.cents <= 128
    /\ 256 * s.cents - 100 * Abs(v) <= 128
    /\ Abs(100 * Abs(v) - 256 * s.cents) = 128 => s.cents % 2 = 0

\* C9: a live fetch produces one row per upstream asset, in order; each
\* percentage cell is the source number to two decimals when the source field
\* is a number and "N/A" when it is absent, null or not a number, whatever the
\* other fields and the other assets hold.
C9_PercentCells ==
    (Finished /\ outcome = "live") =>
        /\ Len(ret) = Len(data.items)
        /\ \A i \in 1..Len(ret) :
            /\ ret[i].Name = NameOf(data.items[i].name)
            /\ \A w \in Windows :
                LET src == data.items[i].price_change_percentage[w]
                IN  IF src.t = "num" THEN TwoDecimals(ret[i].Change[w], src.v)
                    ELSE ret[i].Change[w] = NA

C9_Witness ==
    /\ Finished /\ outcome = "live" /\ Len(ret) = 2
    /\ data.items[1].price_change_percentage["24h"] = Missing
    /\ ret[1].Change["24h"] = NA
    /\ \A w \in Windows \ {"24h"} : ~ret[1].Change[w].na
    /\ \A w \in Windows : ~ret[2].Change[w].na

----------------------------------------------------------------------------
(* generate_insights *)

major_coins == {"Bitcoin", "Ethereum", "BNB"}
stablecoins == {"Tether", "USDC"}

\* float(s.replace("%", "")) in hundredths; "-0.00" is 0
Float(s) == IF s.neg THEN -s.cents ELSE s.cents

\* change_val of the major-coin loop: 0 when the cell does not parse
change_val(s) == IF s.na THEN 0 ELSE Float(s)

Val24h(c, i) == Float(c[i].Change["24h"])

\* a maximum search that moves on to a later row of equal value
RECURSIVE idxmax_last(_)
idxmax_last(c) ==
    IF Len(c) = 1 THEN 1
    ELSE LET front == idxmax_last(SubSeq(c, 1, Len(c) - 1))
         IN  IF Val24h(c, Len(c)) >= Val24h(c, front) THEN Len(c) ELSE front

\* Series.idxmax: the position of the first maximum of val24h; c is not empty
RECURSIVE idxmax(_)
idxmax(c) ==
    IF Len(c) = 1 THEN 1
    ELSE LET front == idxmax(SubSeq(c, 1, Len(c) - 1))
         IN  IF Val24h(c, Len(c)) > Val24h(c, front) THEN Len(c) ELSE front

\* Series.idxmin: the position of the first minimum
RECURSIVE idxmin(_)
idxmin(c) ==
    IF Len(c) = 1 THEN 1
    ELSE LET front == idxmin(SubSeq(c, 1, Len(c) - 1))
         IN  IF Val24h(c, Len(c)) < Val24h(c, front) THEN Len(c) ELSE front

Trend(row) ==
    LET v == change_val(row.Change["24h"])
    IN  [name |-> row.Name,
         verb |-> IF v < 0 THEN "fell" ELSE IF v > 0 THEN "rose" ELSE "stayed flat at",
         by |-> Abs(v),
         price |-> row.Price]

Named(row) == [name |-> row.Name, change |-> row.Change["24h"]]

IsMajor(row) == row.Name \in major_coins
IsStable(row) == row.Name \in stablecoins
HasChange(row) == row.Change["24h"] # NA

Warning == [warning |-> TRUE, major |-> <<>>, stable |-> <<>>, extremes |-> <<>>]

generate_insights(t) ==
    IF t = <<>> THEN Warning
    ELSE LET majors == SelectSeq(t, IsMajor)
             stables == SelectSeq(t, IsStable)
             df_clean == SelectSeq(t, HasChange)
         IN  [warning |-> FALSE,
              major |-> [i \in 1..Len(majors) |-> Trend(majors[i])],
              stable |-> [i \in 1..Len(stables) |->
                             [name |-> stables[i].Name, price |-> stables[i].Price]],
              extremes |->
                  IF df_clean = <<>> THEN <<>>
                  ELSE << [gainer |-> Named(df_clean[idxmax(df_clean)]),
                           loser |-> Named(df_clean[idxmin(df_clean)])] >>]

\* tables as fetch_crypto_data returns them
InsightNames == {"Bitcoin", "Tether", "Pepe"}
InsightChanges == {NA, PctString(1280), PctString(-768), PctString(1), PctString(-1)}
InsightRows ==
    {[Name |-> n, Symbol |-> "N/A", Price |-> Fixed2(256),
      Change |-> [w \in Windows |-> c],
      timestamp |-> [type |-> "Timestamp", t |-> 0]] :
        n \in InsightNames, c \in InsightChanges}

InsightInit ==
    /\ df \in SeqsUpTo(InsightRows, MaxRows)
    /\ narrative = <<>>
    /\ InitFetch /\ InitNews /\ InitBatch /\ InitDash

\* lines 135-175; the narrative is kept as the one-element list of its parts
GenerateInsights ==
    /\ narrative = <<>>
    /\ narrative' = <<generate_insights(df)>>
    /\ UNCHANGED <<df, fetchVars, newsVars, batchVars, dashVars>>

InsightNext == GenerateInsights

SpecInsights == InsightInit /\ [][InsightNext]_vars

\* row i has a 24h change and no earlier row with one reaches its value,
\* no later row exceeds it
FirstMaximum(t, i) ==
    /\ HasChange(t[i])
    /\ \A j \in 1..Len(t) : HasChange(t[j]) =>
          /\ j < i => Float(t[j].Change["24h"]) < Float(t[i].Change["24h"])
          /\ j > i => Float(t[j].Change["24h"]) <= Float(t[i].Change["24h"])

FirstMinimum(t, i) ==
    /\ HasChange(t[i])
    /\ \A j \in 1..Len(t) : HasChange(t[j]) =>
          /\ j < i => Float(t[j].Change["24h"]) > Float(t[i].Change["24h"])
          /\ j > i => Float(t[j].Change["24h"]) >= Float(t[i].Change["24h"])

\* C10: for an empty table the narrative is the fixed warning; for a table with
\* a row whose 24h change is not "N/A" it names as top gainer the first row of
\* maximal 24h change and as biggest loser the first row of minimal 24h change,
\* each by its display name and its formatted percentage string.
C10_GainerAndLoser ==
    narrative # <<>> =>
        LET text == narrative[1]
        IN  /\ df = <<>> => text = Warning
            /\ (\E i \in 1..Len(df) : HasChange(df[i])) =>
                  /\ ~text.warning
                  /\ Len(text.extremes) = 1
                  /\ \E g, l \in 1..Len(df) :
                        /\ FirstMaximum(df, g) /\ FirstMinimum(df, l)
                        /\ text.extremes[1].gainer =
                              [name |-> df[g].Name, change |-> df[g].Change["24h"]]
                        /\ text.extremes[1].loser =
                              [name |-> df[l].Name, change |-> df[l].Change["24h"]]

\* a tie of the maximum between two rows of different names, after an "N/A" row
C10_Witness ==
    /\ narrative # <<>> /\ Len(df) = 3
    /\ df[1].Change["24h"] = NA
    /\ df[2].Change["24h"] = PctString(1280) /\ df[3].Change["24h"] = PctString(1280)
    /\ df[2].Name = "Pepe" /\ df[3].Name = "Bitcoin"
    /\ narrative[1].extremes[1].gainer.name = "Pepe"
    /\ narrative[1].extremes[1].loser.name = "Pepe"

----------------------------------------------------------------------------
(* analyze_sentiment_batch *)

\* What the hosted model does in one call: "error" is any exception of the
\* call, "text" a reply that is not JSON, "object" JSON that is no array,
\* "array" a JSON array of len entries.
Reply(kind, len) == [kind |-> kind, len |-> len]
Replies(lens) ==
    {Reply(k, 0) : k \in {"error", "text", "object"}} \cup {Reply("array", n) : n \in lens}

\* the entry synthesized for headline t
Neutral(t, reason) ==
    [headline |-> t, sentiment |-> "Neutral", reason |-> reason, pos |-> 0]

\* the i-th entry of the model's array, whatever it holds
Entry(i) == [headline |-> 0, sentiment |-> "Positive", reason |-> "model", pos |-> i]

Fallback(t, reason) == [i \in 1..Len(t) |-> Neutral(t[i], reason)]

analyze_sentiment_batch(t, reply) ==
    IF reply.kind = "error" THEN Fallback(t, "str(e)")
    ELSE IF reply.kind = "text" THEN Fallback(t, "Invalid JSON")
    ELSE IF reply.kind = "object" THEN Fallback(t, "Parsing error")
    ELSE [i \in 1..reply.len |-> Entry(i)]         \* "return result"

Titles == {1, 2}

BatchInit ==
    /\ texts \in SeqsUpTo(Titles, MaxTexts)
    /\ sentiments = <<>>
    /\ model = "none"
    /\ InitFetch /\ InitInsights /\ InitNews /\ InitDash

\* lines 89-121
AnalyzeSentimentBatch ==
    /\ model = "none"
    /\ \E reply \in Replies(0..(Len(texts) + 1)) :
        /\ sentiments' = analyze_sentiment_batch(texts, reply)
        /\ model' = reply.kind
    /\ UNCHANGED <<texts, fetchVars, insightVars, newsVars, dashVars>>

BatchNext == AnalyzeSentimentBatch

SpecBatch == BatchInit /\ [][BatchNext]_vars

\* C1: whatever the hosted model does, the list returned has the length of
\* the list of headlines.
C1_SameLength == model # "none" => Len(sentiments) = Len(texts)

----------------------------------------------------------------------------
(* The crypto_news table and fetch_crypto_news *)

\* A feed entry.  Link L carries the title L; a parsed publication date is
\* the time L, an entry whose date does not parse has none.
Article(L, dated) ==
    [title |-> L, link |-> L, published |-> IF dated THEN <<L>> ELSE <<>>]

Range(a, b, dated) == [i \in 1..(b - a + 1) |-> Article(a + i - 1, dated)]

\* what the three feeds deliver in one run
Deliveries ==
    { <<<<>>, <<>>, <<>>>>,
      <<Range(1, 2, FALSE), <<>>, Range(2, 2, FALSE)>>,
      <<Range(2, 12, TRUE), Range(10, MaxLink, TRUE), <<>>>> }

Delivered(feeds) == Len(feeds[1]) + Len(feeds[2]) + Len(feeds[3])

\* feedparser.parse(url) is called outside any try: 0 says that the three
\* calls return (a feed that could not be read then has no entries), i that
\* the call for feed i raises, as feedparser 6 does when the connection
\* breaks while the response is read.  The second feed is the one that
\* breaks, in the runs in which it has no entry to deliver.
ParseRaises(feeds) == IF feeds[1] # <<>> /\ feeds[2] = <<>> THEN {0, 2} ELSE {0}

\* the links of the feeds other than feed i
OtherLinks(feeds, i) ==
    UNION {{feeds[f][k].link : k \in 1..Len(feeds[f])} : f \in (1..3) \ {i}}

HasLink(rows, link) == \E i \in 1..Len(rows) : rows[i].link = link

RECURSIVE drop_duplicates(_)
\* keeps the first row of every link
drop_duplicates(rows) ==
    IF rows = <<>> THEN <<>>
    ELSE LET front == drop_duplicates(SubSeq(rows, 1, Len(rows) - 1))
             last == rows[Len(rows)]
         IN  IF HasLink(front, last.link) THEN front ELSE Append(front, last)

\* sort key of a publication time, descending: a missing one comes last
Key(published) == IF published = <<>> THEN -1 ELSE published[1]

\* row x put behind every row of sorted whose key is not smaller
InsertDescending(sorted, x) ==
    LET p == Cardinality({i \in 1..Len(sorted) :
                             Key(sorted[i].published) >= Key(x.published)})
    IN  SubSeq(sorted, 1, p) \o <<x>> \o SubSeq(sorted, p + 1, Len(sorted))

RECURSIVE SortDescending(_)
\* by publication time, latest first, rows of equal time in their given order
SortDescending(rows) ==
    IF rows = <<>> THEN <<>>
    ELSE InsertDescending(SortDescending(SubSeq(rows, 1, Len(rows) - 1)),
                          rows[Len(rows)])

head(rows, n) == SubSeq(rows, 1, IF Len(rows) < n THEN Len(rows) ELSE n)

\* a schema whose link column is not UNIQUE
NoUniqueConstraint(table, link) == FALSE

\* "link TEXT UNIQUE": a row with this link violates the constraint
UniqueViolation(table, link) == HasLink(table, link)

StoredNews(a) ==
    [title |-> a.title, link |-> a.link, published |-> a.published, sentiment |-> <<>>]

\* INSERT OR IGNORE INTO crypto_news (title, link, published)
InsertOrIgnore(table, a) ==
    IF UniqueViolation(table, a.link) THEN table ELSE Append(table, StoredNews(a))

\* The published column of the frame holds pandas timestamps as soon as one
\* entry has a parsed date.  sqlite3 binds them only if it has an adapter for
\* their type (binds); if not, the insert raises and the row is skipped.
DateColumn(rows) == \E i \in 1..Len(rows) : rows[i].published # <<>>

RECURSIVE InsertAll(_, _, _)
InsertAll(table, rows, bindable) ==
    IF rows = <<>> THEN table
    ELSE LET before == InsertAll(table, SubSeq(rows, 1, Len(rows) - 1), bindable)
         IN  IF bindable THEN InsertOrIgnore(before, rows[Len(rows)]) ELSE before

\* a query without "WHERE sentiment IS NULL"
AllRows(table) == [i \in 1..Len(table) |-> i]

\* the ids of the rows without sentiment, in rowid order
Unseen(table) ==
    SelectSeq([i \in 1..Len(table) |-> i], LAMBDA i : table[i].sentiment = <<>>)

\* SELECT * FROM crypto_news WHERE sentiment IS NULL ORDER BY published DESC
\* LIMIT 20; rows of equal published come in rowid order, as SQLite's scan
\* and sorter deliver them
SelectUnseen(table) ==
    LET ids == Unseen(table)
        rows == [k \in 1..Len(ids) |->
                    [id |-> ids[k], title |-> table[ids[k]].title,
                     link |-> table[ids[k]].link,
                     published |-> table[ids[k]].published]]
    IN  head(SortDescending(rows), SELECT_LIMIT)

\* lines 32-84: the table after the run and the frame returned
fetch_crypto_news(table, feeds, binds, failing) ==
    LET articles == feeds[1] \o feeds[2] \o feeds[3]
        frame == drop_duplicates(articles)
        latest == head(SortDescending(frame), NEWS_HEAD)
        after == InsertAll(table, latest, DateColumn(articles) => binds)
    IN  IF failing # 0                 \* line 35 raises, nothing was stored yet
        THEN [raised |-> TRUE, table |-> table, frame |-> <<>>]
        ELSE IF frame = <<>> THEN [raised |-> FALSE, table |-> table, frame |-> <<>>]
        ELSE [raised |-> FALSE, table |-> after, frame |-> SelectUnseen(after)]

\* what a caller's call of fetch_crypto_news came to
Returned(caller, run, feeds, failing) ==
    [by |-> caller, frame |-> run.frame, delivered |-> Delivered(feeds),
     failing |-> failing, raised |-> run.raised,
     others |-> IF failing = 0 THEN {} ELSE OtherLinks(feeds, failing)]

----------------------------------------------------------------------------
(* update_sentiments *)

Min(a, b) == IF a < b THEN a ELSE b

NumBatches(n) == (n + BATCH_SIZE - 1) \div BATCH_SIZE

\* batches[b] = rows[i:i+5]
Batch(rows, b) ==
    SubSeq(rows, (b - 1) * BATCH_SIZE + 1, Min(b * BATCH_SIZE, Len(rows)))

RECURSIVE WriteRows(_, _, _, _)
\* lines 147-155: UPDATE crypto_news SET sentiment=? WHERE id=? for the
\* first n pairs of zip(batch, sentiments); json.dumps of an entry is never
\* NULL
WriteRows(table, batch, results, n) ==
    IF n = 0 THEN table
    ELSE [WriteRows(table, batch, results, n - 1)
             EXCEPT ![batch[n].id].sentiment = <<results[n]>>]

\* zip stops at the shorter of the two lists
WriteBack(table, batch, results) ==
    WriteRows(table, batch, results, Min(Len(batch), Len(results)))

TitlesOf(batch) == [i \in 1..Len(batch) |-> batch[i].title]

RECURSIVE UpdateBatches(_, _, _, _)
\* the batches 1..b, one model call each, one after the other
UpdateBatches(table, rows, replies, b) ==
    IF b = 0 THEN table
    ELSE WriteBack(UpdateBatches(table, rows, replies, b - 1), Batch(rows, b),
                   analyze_sentiment_batch(TitlesOf(Batch(rows, b)), replies[b]))

\* lines 130-158
update_sentiments(table, rows, replies) ==
    IF rows = <<>> THEN table
    ELSE UpdateBatches(table, rows, replies, NumBatches(Len(rows)))

\* The model's replies to the calls of one update_sentiments run: an array
\* with one entry per headline, except that one call may raise or return an
\* array that is one entry short.
RepliesFor(rows) ==
    LET nb == NumBatches(Len(rows))
        good == [b \in 1..nb |-> Reply("array", Len(Batch(rows, b)))]
    IN  {good}
          \cup {[good EXCEPT ![b] = Reply("error", 0)] : b \in 1..nb}
          \cup {[good EXCEPT ![b] = Reply("array", Len(Batch(rows, b)) - 1)] : b \in 1..nb}

----------------------------------------------------------------------------
(* main() of sentiment_rss.py: fetch_crypto_news, then update_sentiments *)

\* line 187
MainFetch ==
    /\ session = "idle"
    /\ \E feeds \in Deliveries, binds \in BOOLEAN :
      \E failing \in ParseRaises(feeds) :
        LET run == fetch_crypto_news(crypto_news, feeds, binds, failing)
        IN  /\ crypto_news' = run.table
            /\ news_df' = run.frame
            /\ returned' = Returned("main", run, feeds, failing)
            \* an exception of line 187 ends main() with a traceback
            /\ session' = IF run.raised THEN "idle" ELSE "fetched"
    /\ UNCHANGED <<peer, fetchVars, insightVars, batchVars, dashVars>>

\* lines 188-198
MainUpdate ==
    /\ session = "fetched"
    /\ \E replies \in RepliesFor(news_df) :
        crypto_news' = update_sentiments(crypto_news, news_df, replies)
    /\ session' = "idle"
    /\ news_df' = <<>>
    /\ returned' = NoReturn
    /\ UNCHANGED <<peer, fetchVars, insightVars, batchVars, dashVars>>

\* The same two steps of a second process running main() at the same time.
\* Each process commits once, at the end of the step (lines 76 and 156), so
\* the steps of the two interleave as wholes.
PeerFetch ==
    /\ peer.at = "idle"
    /\ \E feeds \in Deliveries, binds \in BOOLEAN :
      \E failing \in ParseRaises(feeds) :
        LET run == fetch_crypto_news(crypto_news, feeds, binds, failing)
        IN  /\ crypto_news' = run.table
            /\ returned' = Returned("peer", run, feeds, failing)
            /\ peer' = [at |-> IF run.raised THEN "idle" ELSE "fetched",
                        frame |-> run.frame]
    /\ UNCHANGED <<news_df, session, fetchVars, insightVars, batchVars, dashVars>>

PeerUpdate ==
    /\ peer.at = "fetched"
    /\ \E replies \in RepliesFor(peer.frame) :
        crypto_news' = update_sentiments(crypto_news, peer.frame, replies)
    /\ peer' = [at |-> "idle", frame |-> <<>>]
    /\ returned' = NoReturn
    /\ UNCHANGED <<news_df, session, fetchVars, insightVars, batchVars, dashVars>>

----------------------------------------------------------------------------
(* The live-market tab of the dashboard: one page load *)

\* what the price API answers during a page load
PageResponses == {OK(Array(<<Bitcoin>>)), OK(NoBody), OK(Array(<<NullPrice>>))}

\* analyze_sentiment(text): analyze_sentiment_batch([text])[0]; the frame
\* has no content column, so the text is the empty string (title 0)
analyze_sentiment(reply) ==
    LET result == analyze_sentiment_batch(<<0>>, reply)
    IN  IF result = <<>> THEN [raised |-> TRUE, value |-> Neutral(0, "")]   \* IndexError
        ELSE [raised |-> FALSE, value |-> result[1]]

RECURSIVE PageInserts(_, _, _)
\* lines 169-180: INSERT INTO crypto_news (title, link, sentiment) for the
\* first rows of the frame; the first statement that raises ends the loop
PageInserts(table, rows, reply) ==
    IF rows = <<>> THEN [raised |-> FALSE, table |-> table]
    ELSE LET before == PageInserts(table, SubSeq(rows, 1, Len(rows) - 1), reply)
             row == rows[Len(rows)]
             sentiment == analyze_sentiment(reply)
         IN  IF before.raised \/ sentiment.raised
                \/ UniqueViolation(before.table, row.link)
             THEN [raised |-> TRUE, table |-> table]
             ELSE [raised |-> FALSE,
                   table |-> Append(before.table,
                                    [title |-> row.title, link |-> row.link,
                                     published |-> <<>>,
                                     sentiment |-> <<sentiment.value>>])]

\* lines 219-311: the historical tab over the rows of crypto_snapshots, the
\* user having selected time frame w.  An empty or missing table gives the
\* "no historical data" notice; astype(float) at line 262, outside any try,
\* raises on a cell "N/A".
Historical(rows, w) ==
    IF rows = <<>> THEN "no history"
    ELSE IF \E i \in 1..Len(rows) : rows[i].Change[w] = NA THEN "raised"
    ELSE "chart"

\* lines 1-18 without the model key: the import of sentiment_rss at line 5
\* raises at its line 19, and the script ends before it draws a tab
ImportFails ==
    /\ ~key
    /\ page # "fetching"
    /\ page' = "crashed"
    /\ tab2' = "none"
    /\ UNCHANGED <<snapshots, crypto_sentiments, history, key, fetchVars,
                   insightVars, newsVars, batchVars>>

\* lines 1-80: the script runs up to its call of fa.fetch_crypto_data()
PageStart ==
    /\ key
    /\ page # "fetching"
    /\ snapshots < MaxPageLoads
    /\ FetchStart
    /\ page' = "fetching"
    /\ tab2' = "none"
    /\ UNCHANGED <<snapshots, crypto_sentiments, history, key, insightVars,
                   newsVars, batchVars>>

PageRequest ==
    /\ page = "fetching"
    /\ FetchAttempt(PageResponses)
    /\ UNCHANGED <<dashVars, insightVars, newsVars, batchVars>>

PageParse ==
    /\ page = "fetching"
    /\ FetchParse
    /\ UNCHANGED <<dashVars, insightVars, newsVars, batchVars>>

\* lines 80-311: the rest of the script once fetch_crypto_data has ended,
\* the live-market tab and then the historical tab
PageFinish ==
    /\ page = "fetching"
    /\ pc = "done"
    /\ IF outcome = "raised"
       THEN /\ page' = "error"                       \* line 213
            /\ UNCHANGED <<snapshots, crypto_sentiments, history, crypto_news,
                           returned>>
       ELSE IF ret = <<>>
       THEN /\ page' = "no live data"                \* line 212
            /\ UNCHANGED <<snapshots, crypto_sentiments, history, crypto_news,
                           returned>>
       ELSE /\ snapshots' = snapshots + 1            \* line 84
            /\ history' = history \o ret
            /\ crypto_sentiments' = crypto_sentiments + 1   \* line 139
            /\ \E feeds \in Deliveries, binds \in BOOLEAN :
              \E failing \in ParseRaises(feeds) :
                LET run == fetch_crypto_news(crypto_news, feeds, binds, failing)
                IN  /\ returned' = Returned("page", run, feeds, failing)
                    /\ IF run.raised                 \* line 208
                       THEN crypto_news' = run.table /\ page' = "news error"
                       ELSE IF run.frame = <<>>
                       THEN crypto_news' = run.table /\ page' = "no news"
                       ELSE \E reply \in Replies({0, 1}) :
                              LET loop == PageInserts(run.table,
                                                      head(run.frame, DASH_HEAD), reply)
                              IN  IF loop.raised
                                  THEN crypto_news' = run.table /\ page' = "news error"
                                  ELSE crypto_news' = loop.table /\ page' = "rendered"
    \* the frame of the fetch_crypto_data invocation is gone
    /\ pc' = "idle" /\ attempt' = 0 /\ cached' = None /\ response' = NoResponse
    /\ wait' = 0 /\ requests' = 0 /\ data' = NoBody /\ ret' = <<>>
    /\ outcome' = "none" /\ t0' = 0 /\ cache0' = Absent
    /\ \E w \in Windows : tab2' = Historical(history', w)
    /\ UNCHANGED <<now, cacheFile, key, insightVars, news_df, session, peer, batchVars>>

NewsInit == InitFetch /\ InitInsights /\ InitNews /\ InitBatch /\ InitDash

NewsNext ==
    \/ MainFetch
    \/ MainUpdate
    \/ PageStart
    \/ PageRequest
    \/ PageParse
    \/ PageFinish

SpecNews == NewsInit /\ [][NewsNext]_vars

----------------------------------------------------------------------------
(* Claims about the news table *)

\* C7: no two rows of crypto_news have the same link.
C7_UniqueLinks ==
    \A i, j \in 1..Len(crypto_news) :
        i # j => crypto_news[i].link # crypto_news[j].link

\* a page load whose feeds delivered link 2 twice, and whose own INSERT of
\* the stored links was rejected
C7_Witness ==
    /\ page = "news error" /\ returned.by = "page" /\ ~returned.raised
    /\ returned.delivered = 3 /\ Len(crypto_news) = 2

Populated(table) == {id \in 1..Len(table) : table[id].sentiment # <<>>}

\* C8: when the feeds delivered something, fetch_crypto_news returns at most
\* 20 rows, each a stored row without sentiment, latest publication first; and
\* a sentiment once populated stays populated, so that no later call returns
\* the row.
C8_ReturnsUnseen ==
    /\ [](returned.delivered > 0 =>
            LET frame == returned.frame
            IN  /\ Len(frame) <= SELECT_LIMIT
                /\ \A k \in 1..Len(frame) :
                      /\ frame[k].id \in 1..Len(crypto_news)
                      /\ crypto_news[frame[k].id].sentiment = <<>>
                      /\ crypto_news[frame[k].id].link = frame[k].link
                      /\ crypto_news[frame[k].id].title = frame[k].title
                      /\ crypto_news[frame[k].id].published = frame[k].published
                /\ \A k, l \in 1..Len(frame) :
                      k < l => /\ frame[k].id # frame[l].id
                               /\ Key(frame[k].published) >= Key(frame[l].published))
    /\ [][Populated(crypto_news) \subseteq Populated(crypto_news')]_vars

\* the limit cuts off an older row, and a row with a sentiment is left out
C8_Witness ==
    /\ returned.by = "main"
    /\ Len(returned.frame) = SELECT_LIMIT
    /\ Len(crypto_news) - Cardinality(Populated(crypto_news)) > SELECT_LIMIT
    /\ Populated(crypto_news) # {}
    /\ Key(returned.frame[1].published) > Key(returned.frame[SELECT_LIMIT].published)

----------------------------------------------------------------------------
(* Page loads on their own: the cache file is an input, the clock moves    *)
(* between the loads and the price API may fail                             *)

\* an asset the upstream reports without its 24h change
Unlisted ==
    Coin("pepe", Str("Pepe"), Str("pepe"), Num(1),
         [w \in Windows |-> IF w = "24h" THEN Missing ELSE Num(-768)])

RenderResponses ==
    PageResponses \cup {OK(Array(<<Unlisted>>)), Failure("Timeout"), Failure("HTTP429")}

RenderRequest ==
    /\ page = "fetching"
    /\ FetchAttempt(RenderResponses)
    /\ UNCHANGED <<dashVars, insightVars, newsVars, batchVars>>

\* the user waits before loading the page again
RenderTick ==
    /\ page # "fetching"
    /\ Tick
    /\ UNCHANGED <<dashVars, insightVars, newsVars, batchVars>>

RenderInit ==
    /\ now = 0
    /\ cacheFile \in InitialCacheFiles
    /\ pc = "idle"
    /\ attempt = 0
    /\ cached = None
    /\ response = NoResponse
    /\ wait = 0
    /\ requests = 0
    /\ data = NoBody
    /\ ret = <<>>
    /\ outcome = "none"
    /\ t0 = 0
    /\ cache0 = Absent
    /\ InitInsights /\ InitNews /\ InitBatch
    /\ NoPage
    /\ key \in BOOLEAN

RenderNext ==
    \/ ImportFails
    \/ PageStart
    \/ RenderRequest
    \/ PageParse
    \/ PageFinish
    \/ RenderTick

SpecRender == RenderInit /\ [][RenderNext]_vars

\* C12: when the parse of one feed fails, the run is not aborted: every
\* entry of the other feeds is stored, and is returned unless it has a
\* sentiment or the limit of 20 rows cut it off.
C12_OtherFeedsSurvive ==
    returned.failing # 0 =>
        /\ ~returned.raised
        /\ \A L \in returned.others :
            /\ HasLink(crypto_news, L)
            /\ \/ Len(returned.frame) = SELECT_LIMIT
               \/ HasLink(returned.frame, L)
               \/ \E id \in Populated(crypto_news) : crypto_news[id].link = L

----------------------------------------------------------------------------
(* Two processes running main() of sentiment_rss.py on one database *)

SessionsInit == NewsInit

SessionsNext ==
    \/ MainFetch
    \/ MainUpdate
    \/ PeerFetch
    \/ PeerUpdate

SpecSessions == SessionsInit /\ [][SessionsNext]_vars

\* C13: a row of crypto_news is never deleted and its sentiment, once
\* populated, is never written again: no step changes it.
C13_WrittenOnce ==
    [][\A id \in 1..Len(crypto_news) :
          /\ id <= Len(crypto_news')
          /\ crypto_news[id].sentiment # <<>> =>
                crypto_news'[id].sentiment = crypto_news[id].sentiment]_vars

----------------------------------------------------------------------------
(* update_sentiments as main() runs it *)

\* the results a headline at place i of its group can receive as its own
OwnResults(title, i) ==
    {Entry(i)} \cup {Neutral(title, r) : r \in {"str(e)", "Invalid JSON", "Parsing error"}}

\* C14: when update_sentiments has run on the n rows of a frame, taken in
\* order in groups of 5 with one model call per group, every one of the n
\* rows holds a sentiment, the result at its own place of its group,
\* whatever the model returned.
C14_EveryRowWritten ==
    [][(session = "fetched" /\ session' = "idle") =>
          \A k \in 1..Len(news_df) :
              LET id == news_df[k].id
                  i == ((k - 1) % BATCH_SIZE) + 1
              IN  /\ crypto_news'[id].sentiment # <<>>
                  /\ crypto_news'[id].sentiment[1] \in OwnResults(news_df[k].title, i)]_vars

----------------------------------------------------------------------------
(* Claims about the page load *)

\* C11: a page load appends one batch to crypto_snapshots if its
\* fetch_crypto_data invocation was a successful live fetch and none if it
\* was a cache hit or a failed fetch; the cache file is written by a
\* successful live fetch, once, and by nothing else.
C11_WriteAndAppendPerFetch ==
    [][/\ (page = "fetching" /\ page' # "fetching") =>
              snapshots' = snapshots + (IF outcome = "live" THEN 1 ELSE 0)
       /\ (pc = "parse" /\ outcome' = "live") =>
              cacheFile' \in {Partial, Snapshot(now, ret')}
       /\ cacheFile' # cacheFile => (pc = "parse" /\ outcome' = "live")]_vars

\* C15: no page load ends in an uncaught exception: the script reaches its
\* tabs, and the historical tab finishes with its notice or its chart.
C15_RenderNeverRaises == page # "crashed" /\ tab2 # "raised"

====
